---- MODULE Spec2Model ----
(***************************************************************************)
(* Model of the OpenAITranslate maubot plugin                              *)
(* (src/openaitranslate/translate.py): the tr command handler, the         *)
(* per-user sliding-window rate limiter, the language table and the        *)
(* translation client.                                                     *)
(*                                                                         *)
(* The plugin runs on one asyncio event loop: a handler runs without       *)
(* interruption from one suspending await to the next.  Each action below  *)
(* is one such uninterrupted segment.  check_limit is a coroutine without  *)
(* any await inside, so it never suspends.                                 *)
(* Strings that the code inspects (command arguments, language codes,      *)
(* message bodies) are sequences of one-character strings.                 *)
(* time.time() is a clock of whole ticks that never goes backwards.        *)
(***************************************************************************)
EXTENDS Integers, Sequences, FiniteSets, TLC

VARIABLES
    now,                \* the value time.time() returns
    rate_limit,         \* config bot.rate_limit
    rate_window,        \* config bot.rate_window
    rate_message,       \* config bot.rate_message ("" is blank)
    error_placeholder,  \* whether the failure messages of the config contain {error}
    replace_list,       \* config languages.replace_list
    codes,              \* config languages.codes
    languages,          \* self.languages
    user_translations,  \* self.user_translations (keys are the senders seen)
    session,            \* self._session is not None
    h,                  \* the tr invocations: locals and position of each
    dispatched,         \* number of tr commands delivered so far
    checks,             \* history: the check_limit calls made, in order
    twin                \* history: the limiter records with expired senders forgotten

vars == <<now, rate_limit, rate_window, rate_message, error_placeholder, replace_list, codes,
          languages, user_translations, session, h, dispatched, checks,
          twin>>

----------------------------------------------------------------------------
(* Bounds of the model *)

MaxTime == 2
MaxLimit == 2
MaxWindow == 2
MaxCmds == 3

\* The tr invocations that may be in flight at once
Procs == {"p1", "p2"}
Senders == {"@a", "@b"}

----------------------------------------------------------------------------
(* Strings *)

NONE == "<None>"

UpperOf == ("e" :> "E") @@ ("n" :> "N") @@ ("f" :> "F") @@ ("r" :> "R") @@
           ("x" :> "X") @@ ("h" :> "H") @@ ("i" :> "I") @@ ("s" :> "S")

\* str.lower() on one character
LowerChar(c) ==
    IF \E l \in DOMAIN UpperOf : UpperOf[l] = c
    THEN CHOOSE l \in DOMAIN UpperOf : UpperOf[l] = c
    ELSE c

\* str.upper() on one character
UpperChar(c) == IF c \in DOMAIN UpperOf THEN UpperOf[c] ELSE c

lower(s) == [i \in DOMAIN s |-> LowerChar(s[i])]
\* The code as typed
upperNothing(s) == s

upper(s) == [i \in DOMAIN s |-> UpperChar(s[i])]

\* Optional text: None, or a string
None == [has |-> FALSE, v |-> <<>>]
Some(s) == [has |-> TRUE, v |-> s]

\* "is not None" in place of truthiness
TruthyNotNone(m) == m.has

\* Python truthiness of an optional string
Truthy(m) == m.has /\ m.v # <<>>

\* Index of the first space of s, 0 when there is none
FirstSpace(s) ==
    IF \E i \in DOMAIN s : s[i] = " "
    THEN CHOOSE i \in DOMAIN s : s[i] = " " /\ \A j \in 1..(i-1) : s[j] # " "
    ELSE 0

\* args.split(" ", 1) and the unpacking into language_code, message
split(args) ==
    LET i == FirstSpace(args) IN
    IF i = 0
    THEN [language_code |-> args, message |-> None]
    ELSE [language_code |-> SubSeq(args, 1, i - 1),
          message |-> Some(SubSeq(args, i + 1, Len(args)))]

RECURSIVE lstrip(_)
lstrip(s) == IF s # <<>> /\ Head(s) = " " THEN lstrip(Tail(s)) ELSE s

RECURSIVE rstrip(_)
rstrip(s) ==
    IF s # <<>> /\ s[Len(s)] = " " THEN rstrip(SubSeq(s, 1, Len(s) - 1)) ELSE s

\* str.strip()
strip(s) == rstrip(lstrip(s))

----------------------------------------------------------------------------
(* Dictionaries *)

EmptyDict == <<>>

\* dict.get(k): the value, or None
DictGet(d, k) == IF k \in DOMAIN d THEN d[k] ELSE NONE

\* dict.update(e)
DictUpdate(d, e) ==
    [k \in (DOMAIN d) \cup (DOMAIN e) |-> IF k \in DOMAIN e THEN e[k] ELSE d[k]]

\* Every key is given the value
DictSetAll(d, k, v) == [x \in (DOMAIN d) \cup {k} |-> v]

\* d[k] = v
DictSet(d, k, v) == [x \in (DOMAIN d) \cup {k} |-> IF x = k THEN v ELSE d[x]]

\* defaultdict(list): d[k] of a key never seen is the empty list
ListOf(d, k) == IF k \in DOMAIN d THEN d[k] ELSE <<>>

----------------------------------------------------------------------------
(* Configuration and inputs *)

HTTP_TOO_MANY_REQUESTS == 429
HTTP_UNAUTHORIZED == 401

\* from .languages import LANGUAGES: the built-in table
LANGUAGES == (<<"e", "n">> :> "English") @@ (<<"e", "s">> :> "Spanish")

\* Values of languages.codes an operator may configure
Overlays ==
    { EmptyDict,
      (<<"e", "n">> :> "British English") @@ (<<"F", "R">> :> "French") }

\* Raw argument strings of the tr command
ArgsInputs ==
    { <<"e", "n", " ", "h", "i">>,
      <<"E", "S">>,
      <<"e", "n", " ">>,
      <<"x", "x", " ", "h", "i">>,
      <<"F", "R", " ", "h", "i">> }

\* Bodies of the message a command replies to
ReplyBodies == { <<>>, <<"h", "i">> }

ErrorDetails == { "e1", "e2" }

Statuses == { 200, HTTP_UNAUTHORIZED, HTTP_TOO_MANY_REQUESTS, 500 }

\* What the POST to the API can come back with
Replies ==
    [kind : {"http"}, status : {200},
     json : {"content", "no_choices", "empty_choices"},
     content : { <<" ", "h", "i", " ">> }, error : {"e1"}]
    \cup
    [kind : {"http"}, status : Statuses \ {200},
     json : {"none"}, content : { <<>> }, error : {"e1"}]
    \cup
    [kind : {"timeout", "client_error"}, status : {0},
     json : {"none"}, content : { <<>> }, error : {"e1"}]
    \cup
    [kind : {"exception"}, status : {0},
     json : {"none"}, content : { <<>> }, error : ErrorDetails]

----------------------------------------------------------------------------
(* update_language_list *)

\* The table keeps its entries
DictClearNothing(d) == d

\* dict.clear()
DictClear(d) == [k \in {} |-> NONE]

\* table is self.languages as the call finds it
update_language_list(table, replace, overlay) ==
    IF replace THEN DictUpdate(DictClear(table), overlay)
    ELSE DictUpdate(LANGUAGES, overlay)

\* self.languages.get(language_code.lower())
resolve(table, language_code) == DictGet(table, lower(language_code))

\* "not language_name"
NotFound(language_name) == language_name = NONE \/ language_name = ""

----------------------------------------------------------------------------
(* check_limit *)

\* A limit of 0 treated like any other limit
UnlimitedNever(limit) == FALSE

\* rate_limit == 0
Unlimited(limit) == limit = 0

\* A timestamp exactly rate_window old still counts
InWindowClosed(t, cutoff) == t >= cutoff

\* t > cutoff
InWindow(t, cutoff) == t > cutoff

\* The looser comparison
HasRoomLoose(n, limit) == n <= limit

\* len(...) < rate_limit
HasRoom(n, limit) == n < limit

\* Nothing is ever dropped
PruneNothing(list, cutoff) == list

\* [t for t in self.user_translations[user_id] if t > cutoff]
Prune(list, cutoff) == SelectSeq(list, LAMBDA t : InWindow(t, cutoff))

\* The admitted call is not recorded
RecordNothing(list, current_time) == list

\* self.user_translations[user_id].append(current_time)
Record(list, current_time) == Append(list, current_time)

\* The whole call: the decision and the records it leaves
check_limit(ut, user_id, current_time) ==
    IF Unlimited(rate_limit) THEN [ok |-> TRUE, ut |-> ut]
    ELSE
        LET cutoff == current_time - rate_window
            kept == Prune(ListOf(ut, user_id), cutoff)
        IN  IF HasRoom(Len(kept), rate_limit)
            THEN [ok |-> TRUE, ut |-> DictSet(ut, user_id, Record(kept, current_time))]
            ELSE [ok |-> FALSE, ut |-> DictSet(ut, user_id, kept)]

----------------------------------------------------------------------------
(* translate_with_openai *)

\* Only server errors count as failures
okBelow500(status) == status < 500

\* resp.ok
ok(status) == status < 400

\* self.config[src].format(error=error): the configured message, with the
\* detail in it where the message has the {error} placeholder
Message(src, error) ==
    [src |-> src, text |-> <<>>, error |-> IF error_placeholder THEN error ELSE ""]

\* The value translate_with_openai returns once the POST has come back
translate_result(r) ==
    IF r.kind = "http" THEN
        IF ok(r.status) THEN
            IF r.json = "empty_choices"
            THEN Message("bot.unexpected_message", "IndexError")
            ELSE [src |-> "content",
                  text |-> strip(IF r.json = "content" THEN r.content ELSE <<>>),
                  error |-> ""]
        ELSE IF r.status = HTTP_TOO_MANY_REQUESTS
             THEN Message("bot.bot_rate_message", r.error)
        ELSE IF r.status = HTTP_UNAUTHORIZED
             THEN Message("bot.auth_message", r.error)
        ELSE Message("bot.unexpected_message", r.error)
    ELSE IF r.kind \in {"timeout", "client_error"}
         THEN Message("bot.network_message", r.error)
    ELSE Message("bot.unexpected_message", r.error)

----------------------------------------------------------------------------
(* The tr handler *)

\* An invocation that has not started, or has returned
NoReply == [kind |-> "", status |-> 0, json |-> "none", content |-> <<>>, error |-> ""]

\* An invocation that has not started, or has returned.  The fields from keys on
\* are history: the keys of the table at the lookup, whether the command had a
\* text, the body get_event gave, the text handed to translate_with_openai, what
\* the POST came back with, the outcome, the messages handed to the transport,
\* the number of POSTs made and the place of the check_limit call in checks
Idle ==
    [pc |-> "idle", sender |-> "", language_code |-> <<>>, language_name |-> NONE,
     message |-> None, reply_evt |-> FALSE,
     keys |-> {}, text_given |-> FALSE, reply_body |-> None, payload |-> None,
     reply |-> NoReply, outcome |-> "", responses |-> <<>>, posts |-> 0, check |-> 0]

\* The message is handed to the transport twice
RespondTwice(hp, to, prefix, body, outcome) ==
    [hp EXCEPT !.pc = "respond",
               !.outcome = outcome,
               !.responses = Append(Append(@, [to |-> to, prefix |-> prefix, body |-> body]),
                                    [to |-> to, prefix |-> prefix, body |-> body])]

\* evt.respond(...) / reply_evt.respond(...): the message handed to the transport
Respond(hp, to, prefix, body, outcome) ==
    [hp EXCEPT !.pc = "respond",
               !.outcome = outcome,
               !.responses = Append(@, [to |-> to, prefix |-> prefix, body |-> body])]

\* The normalised code is echoed in place of the one typed
CodeMessageLowered(src, language_code) ==
    [src |-> src, text |-> lower(language_code), error |-> ""]

\* config[...].format(language_code=language_code)
CodeMessage(src, language_code) == [src |-> src, text |-> language_code, error |-> ""]

\* The outcome a returned value of translate_with_openai stands for
OutcomeOf(result) ==
    CASE result.src = "content" -> "Success"
      [] result.src = "bot.auth_message" -> "AuthFailure"
      [] result.src = "bot.bot_rate_message" -> "Throttled"
      [] result.src = "bot.network_message" -> "NetworkFailure"
      [] OTHER -> "UpstreamError"

\* The records of a limiter that forgets a sender once all its timestamps have
\* expired: the sender is then one never seen before
Forget(tw, user_id, current_time) ==
    IF \A i \in DOMAIN ListOf(user_translations, user_id) :
           ListOf(user_translations, user_id)[i] <= current_time - rate_window
    THEN [k \in (DOMAIN tw) \ {user_id} |-> tw[k]]
    ELSE tw

\* The POST is started without asking the limiter
ProceedUnchecked(p, hp) ==
    /\ IF Truthy(hp.message) THEN
           IF ~session
           THEN h' = [h EXCEPT ![p] = [hp EXCEPT !.pc = "raised"]]
           ELSE h' = [h EXCEPT ![p] =
                         [hp EXCEPT !.pc = "post", !.posts = @ + 1,
                                    !.payload = Some(hp.message.v)]]
       ELSE h' = [h EXCEPT ![p] =
                     Respond(hp, "evt", <<>>,
                             CodeMessage("bot.empty_message", hp.language_code),
                             "EmptyInput")]
    /\ UNCHANGED <<user_translations, twin, checks>>

\* The limiter is asked before the text is looked at
ProceedCheckFirst(p, hp) ==
    LET r == check_limit(user_translations, hp.sender, now)
        t == check_limit(Forget(twin, hp.sender, now), hp.sender, now)
        c == [sender |-> hp.sender, time |-> now, ok |-> r.ok, twin_ok |-> t.ok,
              before |-> ListOf(user_translations, hp.sender)]
        hc == [hp EXCEPT !.check = Len(checks) + 1]
    IN  /\ user_translations' = r.ut
        /\ twin' = t.ut
        /\ checks' = Append(checks, c)
        /\ IF ~Truthy(hp.message) THEN
               h' = [h EXCEPT ![p] =
                        Respond(hc, "evt", <<>>,
                                CodeMessage("bot.empty_message", hp.language_code),
                                "EmptyInput")]
           ELSE IF ~r.ok THEN
               IF rate_message # ""
               THEN h' = [h EXCEPT ![p] =
                             Respond(hc, "evt", <<>>,
                                     Message("bot.rate_message", ""), "RateLimited")]
               ELSE h' = [h EXCEPT ![p] =
                             [hc EXCEPT !.pc = "done", !.outcome = "RateLimited"]]
           ELSE IF ~session
                THEN h' = [h EXCEPT ![p] = [hc EXCEPT !.pc = "raised"]]
                ELSE h' = [h EXCEPT ![p] =
                              [hc EXCEPT !.pc = "post", !.posts = @ + 1,
                                         !.payload = Some(hp.message.v)]]

\* Lines 185-204: from "if message:" to the next suspending await
Proceed(p, hp) ==
    IF Truthy(hp.message) THEN
        LET r == check_limit(user_translations, hp.sender, now)
            t == check_limit(Forget(twin, hp.sender, now), hp.sender, now)
            c == [sender |-> hp.sender, time |-> now, ok |-> r.ok, twin_ok |-> t.ok,
                  before |-> ListOf(user_translations, hp.sender)]
            hc == [hp EXCEPT !.check = Len(checks) + 1]
        IN  /\ user_translations' = r.ut
            /\ twin' = t.ut
            /\ checks' = Append(checks, c)
            /\ IF ~r.ok THEN
                   IF rate_message # ""
                   THEN h' = [h EXCEPT ![p] =
                                 Respond(hc, "evt", <<>>,
                                         Message("bot.rate_message", ""), "RateLimited")]
                   ELSE h' = [h EXCEPT ![p] =
                                 [hc EXCEPT !.pc = "done", !.outcome = "RateLimited"]]
               ELSE IF ~session
                    THEN h' = [h EXCEPT ![p] = [hc EXCEPT !.pc = "raised"]]
                    ELSE h' = [h EXCEPT ![p] =
                                  [hc EXCEPT !.pc = "post", !.posts = @ + 1,
                                             !.payload = Some(hp.message.v)]]
    ELSE
        /\ h' = [h EXCEPT ![p] =
                    Respond(hp, "evt", <<>>,
                            CodeMessage("bot.empty_message", hp.language_code),
                            "EmptyInput")]
        /\ UNCHANGED <<user_translations, twin, checks>>

\* A tr command arrives: lines 165-183, then on to the first suspending await
tr(p, sender, args, reply_to) ==
    /\ session
    /\ dispatched < MaxCmds
    /\ h[p].pc \in {"idle", "done", "raised"}
    /\ dispatched' = dispatched + 1
    /\ languages' = update_language_list(languages, replace_list, codes)
    /\ LET parts == split(args)
           name == resolve(languages', parts.language_code)
           h0 == [Idle EXCEPT !.sender = sender,
                              !.language_code = parts.language_code,
                              !.language_name = name,
                              !.message = parts.message,
                              !.keys = DOMAIN languages',
                              !.text_given = (parts.message.v # <<>>)]
       IN  IF NotFound(name) THEN
               /\ h' = [h EXCEPT ![p] =
                           Respond(h0, "evt", <<>>,
                                   CodeMessage("bot.unknown_message", parts.language_code),
                                   "UnknownLanguage")]
               /\ UNCHANGED <<user_translations, twin, checks>>
           ELSE IF ~Truthy(parts.message) /\ reply_to THEN
               /\ h' = [h EXCEPT ![p] = [h0 EXCEPT !.pc = "get_event"]]
               /\ UNCHANGED <<user_translations, twin, checks>>
           ELSE Proceed(p, h0)
    /\ UNCHANGED <<now, rate_limit, rate_window, rate_message, error_placeholder, replace_list, codes,
                   session>>

\* self.client.get_event returns: line 181, then 185-204
GetEventReturn(p, body) ==
    /\ h[p].pc = "get_event"
    /\ Proceed(p, [h[p] EXCEPT !.message = Some(body), !.reply_evt = TRUE,
                                !.reply_body = Some(body)])
    /\ UNCHANGED <<now, rate_limit, rate_window, rate_message, error_placeholder, replace_list, codes,
                   languages, session, dispatched>>

\* A failed POST is made once more
PostReturnRetry(p, r) ==
    /\ h[p].pc = "post"
    /\ LET translation == translate_result(r)
           hp == [h[p] EXCEPT !.reply = r]
       IN  h' = [h EXCEPT ![p] =
                   IF translation.src # "content" /\ hp.posts < 2
                   THEN [hp EXCEPT !.posts = @ + 1]
                   ELSE IF hp.reply_evt
                   THEN Respond(hp, "reply_evt", upper(hp.language_code), translation,
                                OutcomeOf(translation))
                   ELSE Respond(hp, "evt", <<>>, translation, OutcomeOf(translation))]
    /\ UNCHANGED <<now, rate_limit, rate_window, rate_message, error_placeholder, replace_list, codes,
                   languages, user_translations, session, dispatched, checks, twin>>

\* A failed POST gives the sender its slot back
PostReturnRefund(p, r) ==
    /\ h[p].pc = "post"
    /\ LET translation == translate_result(r)
           hp == [h[p] EXCEPT !.reply = r]
           list == ListOf(user_translations, hp.sender)
       IN  /\ h' = [h EXCEPT ![p] =
                      IF hp.reply_evt
                      THEN Respond(hp, "reply_evt", upper(hp.language_code), translation,
                                   OutcomeOf(translation))
                      ELSE Respond(hp, "evt", <<>>, translation, OutcomeOf(translation))]
           /\ user_translations' =
                  IF translation.src # "content" /\ list # <<>>
                  THEN DictSet(user_translations, hp.sender, SubSeq(list, 1, Len(list) - 1))
                  ELSE user_translations
    /\ UNCHANGED <<now, rate_limit, rate_window, rate_message, error_placeholder, replace_list, codes,
                   languages, session, dispatched, checks, twin>>

\* The POST comes back: lines 292-315, then 191-197
PostReturn(p, r) ==
    /\ h[p].pc = "post"
    /\ LET translation == translate_result(r)
           hp == [h[p] EXCEPT !.reply = r]
       IN  h' = [h EXCEPT ![p] =
                   IF hp.reply_evt
                   THEN Respond(hp, "reply_evt", upper(hp.language_code), translation,
                                OutcomeOf(translation))
                   ELSE Respond(hp, "evt", <<>>, translation, OutcomeOf(translation))]
    /\ UNCHANGED <<now, rate_limit, rate_window, rate_message, error_placeholder, replace_list, codes,
                   languages, user_translations, session, dispatched, checks, twin>>

\* The awaited respond returns, the handler returns and its locals are gone
RespondReturn(p) ==
    /\ h[p].pc = "respond"
    /\ h' = [h EXCEPT ![p] = Idle]
    /\ UNCHANGED <<now, rate_limit, rate_window, rate_message, error_placeholder, replace_list, codes,
                   languages, user_translations, session, dispatched, checks, twin>>

----------------------------------------------------------------------------
(* The plugin and its environment *)

\* start(): lines 127-143
start ==
    /\ ~session
    /\ session' = TRUE
    /\ languages' = update_language_list(languages, replace_list, codes)
    /\ UNCHANGED <<now, rate_limit, rate_window, rate_message, error_placeholder, replace_list, codes,
                   user_translations, h, dispatched, checks, twin>>

\* stop(): lines 147-150
stop ==
    /\ session
    /\ session' = FALSE
    /\ UNCHANGED <<now, rate_limit, rate_window, rate_message, error_placeholder, replace_list, codes,
                   languages, user_translations, h, dispatched, checks, twin>>

\* The operator changes the language settings of the configuration
ConfigUpdate(replace, overlay) ==
    /\ <<replace, overlay>> # <<replace_list, codes>>
    /\ replace_list' = replace
    /\ codes' = overlay
    /\ UNCHANGED <<now, rate_limit, rate_window, rate_message, error_placeholder, languages,
                   user_translations, session, h, dispatched, checks, twin>>

\* Time passes
Tick ==
    /\ now < MaxTime
    /\ now' = now + 1
    /\ UNCHANGED <<rate_limit, rate_window, rate_message, error_placeholder, replace_list, codes,
                   languages, user_translations, session, h, dispatched, checks, twin>>

\* __init__: lines 113-115
Constructed ==
    /\ now = 0
    /\ replace_list = FALSE
    /\ codes = EmptyDict
    /\ languages = EmptyDict
    /\ user_translations = EmptyDict
    /\ session = FALSE
    /\ h = [p \in Procs |-> Idle]
    /\ dispatched = 0
    /\ checks = <<>>
    /\ twin = EmptyDict

\* The dispatcher over every command, reply body and answer of the API, one
\* invocation at a time and with the clock standing still
Init ==
    /\ Constructed
    /\ rate_limit \in {0, 1}
    /\ rate_window = 1
    /\ rate_message \in {"", "rate"}
    /\ error_placeholder \in BOOLEAN

Next ==
    \/ \E sender \in Senders, args \in ArgsInputs, reply_to \in BOOLEAN :
           tr("p1", sender, args, reply_to)
    \/ \E body \in ReplyBodies : GetEventReturn("p1", body)
    \/ \E r \in Replies : PostReturn("p1", r)
    \/ RespondReturn("p1")
    \/ start
    \/ stop
    \/ \E replace \in BOOLEAN, overlay \in Overlays : ConfigUpdate(replace, overlay)

Spec == Init /\ [][Next]_vars

\* The rate limiter under every limit and window: concurrent invocations, all
\* with a known language and a text, and a running clock
InitLimiter ==
    /\ Constructed
    /\ rate_limit \in 0..MaxLimit
    /\ rate_window \in 1..MaxWindow
    /\ rate_message = "rate"
    /\ error_placeholder = TRUE

LimiterArgs == { <<"e", "n", " ", "h", "i">>, <<"E", "S">> }

LimiterReplies ==
    { [kind |-> "http", status |-> 200, json |-> "content",
       content |-> <<" ", "h", "i", " ">>, error |-> "e1"],
      [kind |-> "timeout", status |-> 0, json |-> "none",
       content |-> <<>>, error |-> "e1"] }

NextLimiter ==
    \/ \E p \in Procs, sender \in Senders, args \in LimiterArgs :
           tr(p, sender, args, args = <<"E", "S">>)
    \/ \E p \in Procs : GetEventReturn(p, <<"h", "i">>)
    \/ \E p \in Procs, r \in LimiterReplies : PostReturn(p, r)
    \/ \E p \in Procs : RespondReturn(p)
    \/ start
    \/ Tick

SpecLimiter == InitLimiter /\ [][NextLimiter]_vars

----------------------------------------------------------------------------
(* The rate limiter: C1 to C5, under SpecLimiter *)

\* The admitted calls of sender s in the trailing window (T - rate_window, T]
AdmittedIn(s, T) ==
    { i \in DOMAIN checks :
        /\ checks[i].sender = s
        /\ checks[i].ok
        /\ checks[i].time > T - rate_window
        /\ checks[i].time <= T }

\* C1: with rate_limit = N > 0, whatever the arrival pattern, no sender has more
\* than N admitted calls with timestamps in any trailing window
\* (T - rate_window, T].
C1_AtMostNPerWindow ==
    rate_limit > 0 =>
        \A s \in Senders, T \in 0..MaxTime : Cardinality(AdmittedIn(s, T)) <= rate_limit

\* A sender has used a whole window of more than one slot and was then rejected
C1_Witness ==
    /\ rate_limit > 1
    /\ \E s \in Senders :
          /\ Cardinality(AdmittedIn(s, now)) = rate_limit
          /\ \E i \in DOMAIN checks :
                checks[i].sender = s /\ ~checks[i].ok /\ checks[i].time = now

\* The timestamps of list newer than t - rate_window
Eligible(list, t) == SelectSeq(list, LAMBDA x : x > t - rate_window)

\* Invocations p and q are both in flight, made their check_limit calls for the
\* same sender at the same time, p first, and p found exactly one slot left
Race(p, q) ==
    /\ p # q
    /\ h[p].check > 0
    /\ h[q].check > 0
    /\ h[p].check < h[q].check
    /\ checks[h[p].check].sender = checks[h[q].check].sender
    /\ checks[h[p].check].time = checks[h[q].check].time
    /\ rate_limit > 0
    /\ Len(Eligible(checks[h[p].check].before, checks[h[p].check].time)) = rate_limit - 1

\* C2: of two tr commands of one sender in flight together when exactly one
\* slot remains, exactly one is admitted and the other is rejected.
C2_NoDoubleAdmit ==
    \A p, q \in Procs :
        Race(p, q) => checks[h[p].check].ok /\ ~checks[h[q].check].ok

\* Such a pair, the first still awaiting the API when the second is rejected
C2_Witness ==
    \E p, q \in Procs :
        /\ Race(p, q)
        /\ h[p].pc = "post"
        /\ h[q].pc = "respond"
        /\ h[q].outcome = "RateLimited"

\* A step that makes a check_limit call
CheckStep == Len(checks') = Len(checks) + 1

\* What C3 says of a check_limit step, given the timestamps that remain after
\* the drop
C3Step(remaining(_, _)) ==
    (CheckStep /\ rate_limit > 0) =>
        LET c == checks'[Len(checks')]
            left == remaining(ListOf(user_translations, c.sender), now)
        IN  /\ c.ok <=> Len(left) < rate_limit
            /\ c.ok => /\ ListOf(user_translations', c.sender) = Append(left, now)
                       /\ \A s \in Senders \ {c.sender} :
                             ListOf(user_translations', s) = ListOf(user_translations, s)
            /\ ~c.ok => user_translations' = user_translations

\* Dropping the timestamps older than t - rate_window
NotOlder(list, t) == SelectSeq(list, LAMBDA x : ~(x < t - rate_window))

\* C3 as stated: the call admits iff, after dropping the timestamps older than
\* now - rate_window, fewer than N remain; an admission appends now; a
\* rejection changes nothing.
C3_AsStated == [][C3Step(NotOlder)]_vars

\* C3 as amended: the timestamps dropped are those not newer than
\* now - rate_window, so one exactly rate_window old is dropped too.
C3_Amended == [][C3Step(Eligible)]_vars

\* A call was rejected with the window full, and a call was admitted over a
\* timestamp exactly rate_window old
C3_Witness ==
    /\ rate_limit > 0
    /\ \E i \in DOMAIN checks :
          ~checks[i].ok /\ Len(Eligible(checks[i].before, checks[i].time)) = rate_limit
    /\ \E i \in DOMAIN checks :
          /\ checks[i].ok
          /\ Len(checks[i].before) = rate_limit
          /\ \E k \in DOMAIN checks[i].before :
                checks[i].before[k] = checks[i].time - rate_window

\* C4: with rate_limit = 0 every check_limit call admits and leaves the
\* per-sender records as they were.
C4_UnlimitedAdmitsUnrecorded ==
    [][(CheckStep /\ rate_limit = 0) =>
          /\ checks'[Len(checks')].ok
          /\ user_translations' = user_translations]_vars

\* As many calls as the model delivers, all of one sender at one time
C4_Witness ==
    /\ rate_limit = 0
    /\ Len(checks) = MaxCmds
    /\ \A i \in DOMAIN checks :
          checks[i].sender = checks[1].sender /\ checks[i].time = checks[1].time /\ checks[i].ok

\* C5: from a check_limit call that finds all of a sender's timestamps expired,
\* the decisions for that sender are those a never-seen sender gets for the same
\* calls: every decision equals the one of the limiter that forgets expired
\* senders.
C5_ExpiredIsFresh ==
    \A i \in DOMAIN checks : checks[i].ok = checks[i].twin_ok

\* A sender with a record, all of it expired, called again and was later rejected
C5_Witness ==
    /\ rate_limit > 0
    /\ \E i, j \in DOMAIN checks :
          /\ i < j
          /\ checks[i].sender = checks[j].sender
          /\ checks[i].before # <<>>
          /\ Eligible(checks[i].before, checks[i].time) = <<>>
          /\ checks[i].ok
          /\ ~checks[j].ok

----------------------------------------------------------------------------
(* The dispatcher and the translation client: C6 to C10, under Spec *)

\* The one message invocation p has handed to the transport is the configured
\* message src with the language code as typed, sent in answer to the command
SentOnlyCodeMessage(p, src) ==
    h[p].responses =
        << [to |-> "evt", prefix |-> <<>>,
            body |-> [src |-> src, text |-> h[p].language_code, error |-> ""]] >>

\* C6: a tr command whose language code is not in the language table ends as
\* UnknownLanguage: the unknown-language message with the code echoed is sent
\* and translate_with_openai is never called.
C6_UnknownLanguage ==
    \A p \in Procs :
        (h[p].pc # "idle" /\ lower(h[p].language_code) \notin h[p].keys) =>
            /\ h[p].pc = "respond"
            /\ h[p].outcome = "UnknownLanguage"
            /\ SentOnlyCodeMessage(p, "bot.unknown_message")
            /\ h[p].posts = 0
            /\ h[p].payload = None

\* An upper-case code that the table does not hold was answered
C6_Witness ==
    \E p \in Procs :
        /\ h[p].pc = "respond"
        /\ h[p].language_code = <<"F", "R">>
        /\ lower(h[p].language_code) \notin h[p].keys
        /\ h[p].outcome = "UnknownLanguage"

\* Invocation p has a known language code and no trailing text, and is past the
\* point where the text is settled
KnownNoText(p) ==
    /\ h[p].pc \notin {"idle", "get_event"}
    /\ lower(h[p].language_code) \in h[p].keys
    /\ ~h[p].text_given

\* C7: with a known code and no trailing text, a command that replies to nothing
\* or to a message with an empty body ends as EmptyInput (the empty-input message
\* with the code echoed, no call of translate_with_openai); one that replies to
\* a message with a body has that body as its text to translate.
C7_EmptyInput ==
    \A p \in Procs :
        KnownNoText(p) =>
            IF h[p].reply_body.has /\ h[p].reply_body.v # <<>>
            THEN /\ h[p].message = h[p].reply_body
                 /\ h[p].outcome # "EmptyInput"
                 /\ h[p].posts > 0 => h[p].payload = h[p].reply_body
            ELSE /\ h[p].outcome = "EmptyInput"
                 /\ SentOnlyCodeMessage(p, "bot.empty_message")
                 /\ h[p].posts = 0
                 /\ h[p].payload = None

\* A reply to a message with an empty body was answered with the empty-input
\* message
C7_Witness ==
    \E p \in Procs :
        /\ KnownNoText(p)
        /\ h[p].reply_body = Some(<<>>)
        /\ h[p].outcome = "EmptyInput"
        /\ h[p].responses # <<>>

\* C8 as stated: no invocation raises out of the handler, and every finished
\* dispatch has sent a response unless it was rate limited with a blank rate
\* message.
C8_AlwaysResponds ==
    \A p \in Procs :
        /\ h[p].pc # "raised"
        /\ h[p].pc \in {"respond", "done"} =>
              \/ h[p].responses # <<>>
              \/ h[p].outcome = "RateLimited" /\ rate_message = ""

\* text is content without the spaces around it
Trimmed(content, text) ==
    /\ \E a, b \in 0..Len(content) :
          /\ a + Len(text) + b = Len(content)
          /\ \A i \in 1..a : content[i] = " "
          /\ \A i \in 1..Len(text) : text[i] = content[a + i]
          /\ \A i \in 1..b : content[a + Len(text) + i] = " "
    /\ text # <<>> => text[1] # " " /\ text[Len(text)] # " "

\* The outcome C9 gives for what the POST came back with
Classified(r) ==
    CASE r.kind = "http" /\ r.status \in 200..299 /\ r.json # "empty_choices" -> "Success"
      [] r.kind = "http" /\ r.status = 401 -> "AuthFailure"
      [] r.kind = "http" /\ r.status = 429 -> "Throttled"
      [] r.kind = "http" /\ r.status \notin 200..299 -> "UpstreamError"
      [] r.kind \in {"timeout", "client_error"} -> "NetworkFailure"
      [] OTHER -> "UpstreamError"

CaseVariants(k) ==
    { v \in [DOMAIN k -> {k[i] : i \in DOMAIN k} \cup {LowerChar(k[i]) : i \in DOMAIN k}
                             \cup {UpperChar(k[i]) : i \in DOMAIN k}] :
        lower(v) = lower(k) }

\* C10 as stated: every spelling of every code of the language table, built in
\* or configured, resolves to that code's entry, and the keys are stored in one
\* case.
C10_CaseInsensitive ==
    \A k \in DOMAIN languages :
        /\ k = lower(k)
        /\ \A v \in CaseVariants(k) : resolve(languages, v) = languages[k]

----------------------------------------------------------------------------
(* C11 to C20 *)

\* The table as a function of the built-in table, the overlay and the flag
Merged(builtin, overlay, replace) ==
    [k \in (IF replace THEN {} ELSE DOMAIN builtin) \cup DOMAIN overlay |->
        IF k \in DOMAIN overlay THEN overlay[k] ELSE builtin[k]]

\* A step that runs update_language_list: a tr command arrives, or start
UpdateStep == dispatched' # dispatched \/ (~session /\ session')

C12_PrefixOnReply ==
    \A p \in Procs :
        h[p].outcome = "Success" =>
            /\ Len(h[p].responses) = 1
            /\ h[p].responses[1].body.src = "content"
            /\ IF h[p].text_given
               THEN /\ h[p].responses[1].prefix = <<>>
                    /\ h[p].payload = h[p].message
               ELSE /\ h[p].reply_body.has
                    /\ h[p].responses[1].prefix \in CaseVariants(h[p].language_code)
                    /\ \A i \in DOMAIN h[p].responses[1].prefix :
                          h[p].responses[1].prefix[i] \notin DOMAIN UpperOf

\* The body of a message replied to with a lower-case code was translated and
\* sent with the code in upper case
C12_Witness ==
    \E p \in Procs :
        /\ h[p].outcome = "Success"
        /\ ~h[p].text_given
        /\ h[p].language_code = <<"e", "n">>
        /\ h[p].responses[1].prefix = <<"E", "N">>
        /\ h[p].responses[1].body.text = <<"h", "i">>

\* The outcomes of a failed translation
Failures == {"AuthFailure", "Throttled", "NetworkFailure", "UpstreamError"}

\* C13 as stated: what a failed dispatch sends to the chat is the same whatever
\* the body of the error response or the message of the exception.
C13_NoDetailInChat ==
    \A p \in Procs :
        h[p].outcome \in Failures =>
            \A d \in ErrorDetails :
                h[p].responses[1].body = translate_result([h[p].reply EXCEPT !.error = d])

\* C14: a dispatched tr command makes at most one POST to the API, whatever
\* the POST comes back with: a dispatch that reached an outcome of the
\* translation made exactly one, any other dispatch none or the one in flight.
C14_OnePost ==
    \A p \in Procs :
        /\ h[p].posts <= 1
        /\ h[p].outcome \in Failures \cup {"Success"} => h[p].posts = 1
        /\ h[p].pc = "post" => h[p].posts = 1

\* A dispatch whose POST failed has answered after that one POST
C14_Witness ==
    \E p \in Procs :
        /\ h[p].outcome \in Failures
        /\ h[p].pc = "respond"
        /\ h[p].posts = 1

\* The terminal outcomes of a dispatch
Outcomes == {"UnknownLanguage", "EmptyInput", "RateLimited", "Success"} \cup Failures

\* The place of a handler in the run Parse .. Respond
Stage(pc) ==
    CASE pc = "idle" -> 0
      [] pc = "get_event" -> 1
      [] pc = "post" -> 2
      [] OTHER -> 3

\* C15 as stated: an invocation only moves forward through its stages, has no
\* outcome and no response before it ends, and has ended with exactly one
\* outcome and at most one response.
C15_LinearOneOutcome ==
    /\ [](\A p \in Procs :
            /\ h[p].pc \in {"idle", "get_event", "post"} =>
                  h[p].outcome = "" /\ h[p].responses = <<>>
            /\ h[p].pc \in {"respond", "done", "raised"} =>
                  h[p].outcome \in Outcomes /\ Len(h[p].responses) <= 1)
    /\ [][\A p \in Procs :
            h'[p] # h[p] /\ h[p].pc \in {"get_event", "post"} =>
                Stage(h'[p].pc) > Stage(h[p].pc)]_vars

\* C16: the check_limit call of a dispatch has returned, admitting it, before
\* its POST starts; and while a POST of one sender is in flight, a command of
\* another sender can be taken and its check_limit call runs and returns.
C16_LimiterNotHeld ==
    [] \A p \in Procs :
        h[p].pc = "post" =>
            /\ h[p].check \in DOMAIN checks
            /\ checks[h[p].check].ok
            /\ checks[h[p].check].sender = h[p].sender
            /\ \A q \in Procs \ {p}, s \in Senders \ {h[p].sender} :
                  (h[q].pc = "idle" /\ session /\ dispatched < MaxCmds) =>
                      ENABLED (/\ tr(q, s, <<"e", "n", " ", "h", "i">>, FALSE)
                               /\ Len(checks') = Len(checks) + 1
                               /\ checks'[Len(checks')].sender = s)

\* The check of another sender was made, and rejected, while a POST was in flight
C16_Witness ==
    \E p, q \in Procs :
        /\ h[p].pc = "post"
        /\ h[q].pc = "respond"
        /\ h[q].check > h[p].check
        /\ h[q].sender # h[p].sender
        /\ h[q].outcome = "RateLimited"

\* The dispatch of p was rejected by check_limit
Rejected(p) == h[p].check \in DOMAIN checks /\ ~checks[h[p].check].ok

\* C17: a dispatch that check_limit rejected ends RateLimited without a POST;
\* the rate message is sent once if it is not blank, nothing if it is blank.
C17_RejectedEnds ==
    \A p \in Procs :
        Rejected(p) =>
            /\ h[p].outcome = "RateLimited"
            /\ h[p].posts = 0
            /\ h[p].reply = NoReply
            /\ IF rate_message # ""
               THEN /\ h[p].pc = "respond"
                    /\ Len(h[p].responses) = 1
                    /\ h[p].responses[1].body.src = "bot.rate_message"
                    /\ h[p].responses[1].prefix = <<>>
               ELSE /\ h[p].pc = "done"
                    /\ h[p].responses = <<>>

\* A rejected dispatch has sent the rate message
C17_Witness ==
    \E p \in Procs :
        /\ Rejected(p)
        /\ rate_message # ""
        /\ Len(h[p].responses) = 1

\* C18: a dispatch that ends in UnknownLanguage or EmptyInput has made no
\* check_limit call, and the step that ends it leaves the rate records of
\* every sender as they were.
C18_NoSlotWithoutText ==
    /\ [](\A p \in Procs :
            h[p].outcome \in {"UnknownLanguage", "EmptyInput"} => h[p].check = 0)
    /\ [][(\E p \in Procs :
             /\ h'[p] # h[p]
             /\ h'[p].outcome \in {"UnknownLanguage", "EmptyInput"})
          => /\ user_translations' = user_translations
             /\ checks' = checks]_vars

\* A command without text ended in EmptyInput when its sender had a slot on record
C18_Witness ==
    \E p \in Procs :
        /\ h[p].outcome = "EmptyInput"
        /\ ListOf(user_translations, h[p].sender) # <<>>

\* C19: a check_limit call for one sender leaves the record of every other
\* sender as it was.
C19_OtherSendersUnchanged ==
    [][CheckStep =>
          \A s \in Senders \ {checks'[Len(checks')].sender} :
              /\ (s \in DOMAIN user_translations') = (s \in DOMAIN user_translations)
              /\ ListOf(user_translations', s) = ListOf(user_translations, s)]_vars

\* The last check was for a sender other than the first one, whose admission
\* is still on record
C19_Witness ==
    /\ rate_limit > 0
    /\ Len(checks) >= 2
    /\ checks[Len(checks)].sender # checks[1].sender
    /\ checks[1].ok
    /\ checks[1].time \in {ListOf(user_translations, checks[1].sender)[i] :
                              i \in DOMAIN ListOf(user_translations, checks[1].sender)}

\* The number of times t stands in list
CountOf(list, t) == Cardinality({i \in DOMAIN list : list[i] = t})

\* C20: every admission still inside the window stands in the sender's record,
\* once for each admitted call, whatever became of the translation.
C20_NoRefund ==
    rate_limit > 0 =>
        \A s \in Senders, t \in 0..MaxTime :
            t > now - rate_window =>
                CountOf(ListOf(user_translations, s), t) =
                    Cardinality({i \in DOMAIN checks :
                                    checks[i].sender = s /\ checks[i].ok /\ checks[i].time = t})

\* The translation of an admitted dispatch failed, time has passed, and its
\* timestamp is still on record
C20_Witness ==
    \E p \in Procs :
        /\ h[p].outcome \in Failures
        /\ rate_limit > 0
        /\ checks[h[p].check].time < now
        /\ checks[h[p].check].time > now - rate_window
        /\ CountOf(ListOf(user_translations, h[p].sender), checks[h[p].check].time) = 1

====
